---- MODULE Spec2Model ----
(***************************************************************************)
(* Model of lilos' bounded inter-task queue (src/src/queue.rs): a ring     *)
(* buffer (storage, head, tail, pending) with two FIFO wait lists          *)
(* (push_waiters, pop_waiters), used by cooperatively scheduled tasks      *)
(* through try_push, push and pop.  A task runs from one suspension point  *)
(* to the next without interruption, so every action is one poll of one    *)
(* future (or the drop of a suspended future).                             *)
(***************************************************************************)
EXTENDS Integers, Sequences, FiniteSets, TLC

\* ------------------------------------------------------------------ bounds
NumTasks == 3
MaxCap == 2
MaxPush == 3

Tasks == 1..NumTasks

\* Content of a slot that holds no value (MaybeUninit::uninit(), or a slot
\* whose value has been moved out by ptr::read).
Uninit == -1

\* Values a read of an uninitialized slot may produce.
AnyValue == 0..MaxPush

VARIABLES
    q,          \* the Queue struct
    pc,         \* per task: "idle", "push" (inside a push future), "pop"
    val,        \* per task: the value carried by its push future (0: none)
    nextv,      \* number of push/try_push calls started so far
    pushed,     \* history: values placed by completed pushes, in order
    popped,     \* history: values returned by completed pops, in order
    cancelled,  \* history: values of push futures dropped before completion
    arrival,    \* history: the tasks inside a push or pop future, by arrival
    last,       \* history: the most recent operation and its result
    track,      \* TRUE: histories are recorded and pushes are bounded
    life,       \* the queue: "unborn" (static, not yet created), "live",
                \* "dropped", or "panicked" (the program died at the guard)
    INIT,       \* the one-shot flag of a create_static_queue! site
    destructed, \* the slots drop_in_place ran on, in order, when dropped
    cell,       \* an atomic cell that the polyfill operates on
    native,     \* the same cell under the native read-modify-write back-end
    primask,    \* TRUE: interrupts are disabled
    frames      \* the stack of execution contexts: the thread, then the
                \* interrupt handlers that preempted it, innermost last

\* The queue and the tasks using it, with their histories.
queue_vars ==
    <<q, pc, val, nextv, pushed, popped, cancelled, arrival, last, track>>

\* The life cycle of the queue.
life_vars == <<life, INIT, destructed>>

\* The processor and the atomic cell.
cpu_vars == <<cell, native, primask, frames>>

vars == <<queue_vars, life_vars, cpu_vars>>

\* ------------------------------------------------------------ wait list
\* (crate::list::List is used by the queue through three operations.)

InList(list, t) == \E i \in 1..Len(list) : list[i] = t

\* insert_and_wait: enrolls the node at the tail of the list.
insert_and_wait(list, t) == Append(list, t)

\* wake_one: detaches the front node; no-op on an empty list.
wake_one(list) == IF list = <<>> THEN list ELSE Tail(list)

\* Dropping an insert_and_wait future: the node leaves the list if it is
\* still in it.
detach(list, t) == SelectSeq(list, LAMBDA x : x # t)

\* ---------------------------------------------------------------- queue

\* Queue::new + finish_init
new(n) ==
    [storage |-> [i \in 0..(n - 1) |-> Uninit],
     pending |-> 0,
     head |-> 0,
     tail |-> 0,
     push_waiters |-> <<>>,
     pop_waiters |-> <<>>]

capacity(s) == Cardinality(DOMAIN s.storage)

\* A faulty is_full: reports full one slot early.
is_full_early(s) == s.pending >= capacity(s) - 1

is_full(s) == s.pending = capacity(s)

len(s) == s.pending

\* A faulty is_empty: reports empty while one value is left.
is_empty_late(s) == s.pending <= 1

is_empty(s) == s.pending = 0

\* A faulty advance: no wrap at the end of the storage.
advance_nowrap(s, i) == i + 1

\* A faulty advance: stays on the last index instead of wrapping to 0.
advance_stuck(s, i) == IF i = capacity(s) - 1 THEN i ELSE i + 1

\* "Advance head/tail modulo capacity": if i == capacity - 1 { 0 } else { i + 1 }
advance(s, i) == IF i = capacity(s) - 1 THEN 0 ELSE i + 1

\* A faulty try_push: wakes a consumer on every push, not only on the push
\* into an empty queue.
try_push_wake_any(s, value) ==
    IF is_full(s)
    THEN [res |-> "Err", ret |-> value, q |-> s]
    ELSE LET h == s.head
         IN  [res |-> "Ok",
              ret |-> 0,
              q |-> [s EXCEPT
                       !.storage = [@ EXCEPT ![h] = value],
                       !.head = advance(s, h),
                       !.pending = @ + 1,
                       !.pop_waiters = wake_one(@)]]

\* A faulty try_push: refuses only when pending is above the capacity.
try_push_over(s, value) ==
    IF s.pending > capacity(s)
    THEN [res |-> "Err", ret |-> value, q |-> s]
    ELSE LET h == s.head
         IN  [res |-> "Ok",
              ret |-> 0,
              q |-> [s EXCEPT
                       !.storage = [@ EXCEPT ![h] = value],
                       !.head = advance(s, h),
                       !.pending = @ + 1,
                       !.pop_waiters =
                           IF h = s.tail THEN wake_one(@) ELSE @]]

\* A faulty try_push: writes the slot before it looks at is_full.
try_push_clobber(s, value) ==
    IF is_full(s)
    THEN [res |-> "Err", ret |-> value,
          q |-> [s EXCEPT !.storage = [@ EXCEPT ![s.head] = value]]]
    ELSE LET h == s.head
         IN  [res |-> "Ok",
              ret |-> 0,
              q |-> [s EXCEPT
                       !.storage = [@ EXCEPT ![h] = value],
                       !.head = advance(s, h),
                       !.pending = @ + 1,
                       !.pop_waiters =
                           IF h = s.tail THEN wake_one(@) ELSE @]]

\* Queue::try_push: the result (Ok, or Err with the value handed back) and
\* the queue afterwards.
try_push(s, value) ==
    IF is_full(s)
    THEN [res |-> "Err", ret |-> value, q |-> s]
    ELSE LET h == s.head
         IN  [res |-> "Ok",
              ret |-> 0,
              q |-> [s EXCEPT
                       !.storage = [@ EXCEPT ![h] = value],
                       !.head = advance(s, h),
                       !.pending = @ + 1,
                       !.pop_waiters =
                           IF h = s.tail THEN wake_one(@) ELSE @]]

\* A faulty pop: wakes a producer on every pop, not only on the pop from a
\* full queue.
pop_commit_wake_any(s) ==
    LET t == s.tail
        s1 == [s EXCEPT
                 !.storage = [@ EXCEPT ![t] = Uninit],
                 !.tail = advance(s, t),
                 !.pending = @ - 1]
    IN  [slot |-> s.storage[t],
         q |-> [s1 EXCEPT !.push_waiters = wake_one(@)]]

\* A faulty pop: forgets to update the pending count.
pop_commit_keep_pending(s) ==
    LET t == s.tail
        s1 == [s EXCEPT
                 !.storage = [@ EXCEPT ![t] = Uninit],
                 !.tail = advance(s, t)]
    IN  [slot |-> s.storage[t],
         q |-> [s1 EXCEPT
                  !.push_waiters =
                      IF t = s1.head THEN wake_one(@) ELSE @]]

\* A faulty pop: reads the slot at head instead of the slot at tail.
pop_commit_at_head(s) ==
    LET t == s.tail
        s1 == [s EXCEPT
                 !.storage = [@ EXCEPT ![t] = Uninit],
                 !.tail = advance(s, t),
                 !.pending = @ - 1]
    IN  [slot |-> s.storage[s.head],
         q |-> [s1 EXCEPT
                  !.push_waiters =
                      IF t = s1.head THEN wake_one(@) ELSE @]]

\* Queue::pop from "not empty" on: the slot that is read and the queue
\* afterwards.
pop_commit(s) ==
    LET t == s.tail
        s1 == [s EXCEPT
                 !.storage = [@ EXCEPT ![t] = Uninit],
                 !.tail = advance(s, t),
                 !.pending = @ - 1]
    IN  [slot |-> s.storage[t],
         q |-> [s1 EXCEPT
                  !.push_waiters =
                      IF t = s1.head THEN wake_one(@) ELSE @]]

\* --------------------------------------------------------------- tasks

\* A task inside a push/pop future is parked while its node is in the wait
\* list, and woken (due to be re-polled) once wake_one has detached it.
ParkedPush(t) == pc[t] = "push" /\ InList(q.push_waiters, t)
WokenPush(t) == pc[t] = "push" /\ ~InList(q.push_waiters, t)
ParkedPop(t) == pc[t] = "pop" /\ InList(q.pop_waiters, t)
WokenPop(t) == pc[t] = "pop" /\ ~InList(q.pop_waiters, t)

\* A context that is not inside a polyfill call.
IdleFrame ==
    [pc |-> "idle", op |-> "none", val |-> 0, ordering |-> "none",
     lo |-> "none", so |-> "none", x |-> 0, saved |-> FALSE]

\* The processor at reset: the thread runs with interrupts enabled.
CpuInit ==
    /\ cell = 0
    /\ native = 0
    /\ primask = FALSE
    /\ frames = <<IdleFrame>>

\* The tasks hold a reference to a queue that exists.
Live == life = "live"

CanStartPush == track => nextv < MaxPush
NewValue == IF track THEN nextv + 1 ELSE 1

Record(h, x) == IF track THEN Append(h, x) ELSE h

\* The order of arrival, after task t's poll left it suspended or not.
Arrived(t, suspended) ==
    IF suspended
    THEN IF InList(arrival, t) THEN arrival ELSE Append(arrival, t)
    ELSE SelectSeq(arrival, LAMBDA x : x # t)

Init ==
    /\ \E n \in 1..MaxCap : q = new(n)
    /\ pc = [t \in Tasks |-> "idle"]
    /\ val = [t \in Tasks |-> 0]
    /\ nextv = 0
    /\ pushed = <<>>
    /\ popped = <<>>
    /\ cancelled = {}
    /\ arrival = <<>>
    /\ last = [op |-> "init", task |-> 0, val |-> 0, res |-> "none", ret |-> 0]
    /\ track = TRUE
    /\ life = "live"
    /\ INIT = FALSE
    /\ destructed = <<>>
    /\ CpuInit

\* A call of try_push by an idle task.
TryPush(t) ==
    /\ Live
    /\ pc[t] = "idle"
    /\ CanStartPush
    /\ LET v == NewValue
           r == try_push(q, v)
       IN  /\ q' = r.q
           /\ pushed' = IF r.res = "Ok" THEN Record(pushed, v) ELSE pushed
           /\ last' = [op |-> "try_push", task |-> t, val |-> v,
                       res |-> r.res, ret |-> r.ret]
    /\ nextv' = IF track THEN nextv + 1 ELSE nextv
    /\ UNCHANGED <<pc, val, popped, cancelled, arrival, track, life_vars, cpu_vars>>

\* One poll of a push future: the body of the loop in Queue::push.
PushPoll(t, value, op) ==
    LET r == try_push(q, value)
    IN  IF r.res = "Ok"
        THEN /\ q' = r.q
             /\ pc' = [pc EXCEPT ![t] = "idle"]
             /\ val' = [val EXCEPT ![t] = 0]
             /\ pushed' = Record(pushed, value)
             /\ arrival' = Arrived(t, FALSE)
             /\ last' = [op |-> op, task |-> t, val |-> value,
                         res |-> "Ok", ret |-> 0]
        ELSE /\ q' = [r.q EXCEPT
                        !.push_waiters = insert_and_wait(@, t)]
             /\ pc' = [pc EXCEPT ![t] = "push"]
             /\ val' = [val EXCEPT ![t] = r.ret]
             /\ pushed' = pushed
             /\ arrival' = Arrived(t, TRUE)
             /\ last' = [op |-> op, task |-> t, val |-> value,
                         res |-> "Pending", ret |-> 0]

\* An idle task calls push(value) and the future is polled for the first
\* time.
PushStart(t) ==
    /\ Live
    /\ pc[t] = "idle"
    /\ CanStartPush
    /\ PushPoll(t, NewValue, "push")
    /\ nextv' = IF track THEN nextv + 1 ELSE nextv
    /\ UNCHANGED <<popped, cancelled, track, life_vars, cpu_vars>>

\* A producer detached by wake_one is polled again.
PushResume(t) ==
    /\ Live
    /\ WokenPush(t)
    /\ PushPoll(t, val[t], "push_resume")
    /\ UNCHANGED <<nextv, popped, cancelled, track, life_vars, cpu_vars>>

\* One poll of a pop future: Queue::pop.
PopPoll(t, op) ==
    IF is_empty(q)
    THEN /\ q' = [q EXCEPT !.pop_waiters = insert_and_wait(@, t)]
         /\ pc' = [pc EXCEPT ![t] = "pop"]
         /\ popped' = popped
         /\ arrival' = Arrived(t, TRUE)
         /\ last' = [op |-> op, task |-> t, val |-> 0,
                     res |-> "Pending", ret |-> 0]
    ELSE LET r == pop_commit(q)
         IN  \E x \in (IF r.slot = Uninit THEN AnyValue ELSE {r.slot}) :
                 /\ q' = r.q
                 /\ pc' = [pc EXCEPT ![t] = "idle"]
                 /\ popped' = Record(popped, x)
                 /\ arrival' = Arrived(t, FALSE)
                 /\ last' = [op |-> op, task |-> t, val |-> 0,
                             res |-> "Value", ret |-> x]

\* An idle task calls pop() and the future is polled for the first time.
PopStart(t) ==
    /\ Live
    /\ pc[t] = "idle"
    /\ PopPoll(t, "pop")
    /\ UNCHANGED <<val, nextv, pushed, cancelled, track, life_vars, cpu_vars>>

\* A consumer detached by wake_one is polled again.
PopResume(t) ==
    /\ Live
    /\ WokenPop(t)
    /\ PopPoll(t, "pop_resume")
    /\ UNCHANGED <<val, nextv, pushed, cancelled, track, life_vars, cpu_vars>>

\* A faulty drop of a pop future: a woken consumer takes the value it was
\* woken for with it.
CancelConsuming(t) ==
    /\ Live
    /\ pc[t] \in {"push", "pop"}
    /\ q' = IF pc[t] = "push"
            THEN [q EXCEPT !.push_waiters = detach(@, t)]
            ELSE IF WokenPop(t) /\ ~is_empty(q)
                 THEN pop_commit(q).q
                 ELSE [q EXCEPT !.pop_waiters = detach(@, t)]
    /\ pc' = [pc EXCEPT ![t] = "idle"]
    /\ val' = [val EXCEPT ![t] = 0]
    /\ arrival' = Arrived(t, FALSE)
    /\ cancelled' = IF pc[t] = "push" /\ track
                    THEN cancelled \cup {val[t]} ELSE cancelled
    /\ last' = [op |-> IF pc[t] = "push" THEN "cancel_push" ELSE "cancel_pop",
                task |-> t, val |-> val[t], res |-> "none", ret |-> 0]
    /\ UNCHANGED <<nextv, pushed, popped, track, life_vars, cpu_vars>>

\* A suspended push or pop future is dropped: its wait-list node is dropped
\* with it, and so is the value a push future carries.
Cancel(t) ==
    /\ Live
    /\ pc[t] \in {"push", "pop"}
    /\ q' = IF pc[t] = "push"
            THEN [q EXCEPT !.push_waiters = detach(@, t)]
            ELSE [q EXCEPT !.pop_waiters = detach(@, t)]
    /\ pc' = [pc EXCEPT ![t] = "idle"]
    /\ val' = [val EXCEPT ![t] = 0]
    /\ arrival' = Arrived(t, FALSE)
    /\ cancelled' = IF pc[t] = "push" /\ track
                    THEN cancelled \cup {val[t]} ELSE cancelled
    /\ last' = [op |-> IF pc[t] = "push" THEN "cancel_push" ELSE "cancel_pop",
                task |-> t, val |-> val[t], res |-> "none", ret |-> 0]
    /\ UNCHANGED <<nextv, pushed, popped, track, life_vars, cpu_vars>>

Next ==
    \/ \E t \in Tasks : TryPush(t)
    \/ \E t \in Tasks : PushStart(t)
    \/ \E t \in Tasks : PushResume(t)
    \/ \E t \in Tasks : PopStart(t)
    \/ \E t \in Tasks : PopResume(t)
    \/ \E t \in Tasks : Cancel(t)

Spec == Init /\ [][Next]_vars

\* The executor polls every woken task again: the fairness of the resumes.
Fairness ==
    \A t \in Tasks : WF_vars(PushResume(t)) /\ WF_vars(PopResume(t))

\* The same program with the histories switched off, so that pushes can go
\* on for ever in a finite state space.
LiveInit ==
    /\ \E n \in 1..MaxCap : q = new(n)
    /\ pc = [t \in Tasks |-> "idle"]
    /\ val = [t \in Tasks |-> 0]
    /\ nextv = 0
    /\ pushed = <<>>
    /\ popped = <<>>
    /\ cancelled = {}
    /\ arrival = <<>>
    /\ last = [op |-> "init", task |-> 0, val |-> 0, res |-> "none", ret |-> 0]
    /\ track = FALSE
    /\ life = "live"
    /\ INIT = FALSE
    /\ destructed = <<>>
    /\ CpuInit

LiveSpec == LiveInit /\ [][Next]_vars /\ Fairness

\* ------------------------------------------------------------ properties

\* The live slots in ring order, oldest first.
RingContents ==
    [k \in 1..q.pending |-> q.storage[(q.tail + k - 1) % capacity(q)]]

Range(f) == {f[i] : i \in DOMAIN f}

PushDone == last.op \in {"try_push", "push", "push_resume"} /\ last.res = "Ok"
PopDone == last.op \in {"pop", "pop_resume"} /\ last.res = "Value"

\* u arrived before t (both are inside a future).
Before(u, t) ==
    \E i, j \in 1..Len(arrival) : i < j /\ arrival[i] = u /\ arrival[j] = t

\* C1: the values returned by completed pops are a prefix of the values
\* placed by completed pushes, in the order the pushes completed, and the
\* rest of the pushed values is what the ring holds, oldest first: nothing is
\* lost, duplicated, reordered or invented.
C1_PoppedIsPrefixOfPushed == pushed = popped \o RingContents

C1_Witness ==
    /\ Len(popped) >= 1
    /\ Len(pushed) > Len(popped)
    /\ cancelled # {}
    /\ PopDone

\* C2: wake-up liveness, as the safety property it rests on.  Progress is to
\* come from polling already-woken tasks alone; so whenever a consumer is
\* parked while the queue holds data (or a producer is parked while the queue
\* has room), some task must be woken and due to be polled: with none, no
\* step but a new call or a cancellation is possible and the waiter stays.
C2_WakeupLiveness ==
    /\ (q.pop_waiters # <<>> /\ q.pending > 0)
          => \E t \in Tasks : WokenPop(t) \/ WokenPush(t)
    /\ (q.push_waiters # <<>> /\ q.pending < capacity(q))
          => \E t \in Tasks : WokenPop(t) \/ WokenPush(t)

\* C3, as claimed: whenever push_waiters is non-empty the queue is full.
C3_PushWaitersImplyFull ==
    q.push_waiters # <<>> => q.pending = capacity(q)

\* C3, amended: a producer is enrolled in push_waiters only by a step that
\* finds the queue full and leaves it full.
C3_EnrollOnlyWhenFull ==
    [][\A t \in Tasks :
          (~InList(q.push_waiters, t) /\ InList(q'.push_waiters, t))
             => (q.pending = capacity(q) /\ q'.pending = capacity(q))]_vars

C3_Witness ==
    /\ last.op \in {"push", "push_resume"}
    /\ last.res = "Pending"
    /\ ParkedPush(last.task)
    /\ q.pending = capacity(q)

\* C4, as claimed: whenever pop_waiters is non-empty the queue is empty.
C4_PopWaitersImplyEmpty ==
    q.pop_waiters # <<>> => q.pending = 0

\* C4, amended: a consumer is enrolled in pop_waiters only by a step that
\* finds the queue empty and leaves it empty.
C4_EnrollOnlyWhenEmpty ==
    [][\A t \in Tasks :
          (~InList(q.pop_waiters, t) /\ InList(q'.pop_waiters, t))
             => (q.pending = 0 /\ q'.pending = 0)]_vars

C4_Witness ==
    /\ last.op \in {"pop", "pop_resume"}
    /\ last.res = "Pending"
    /\ ParkedPop(last.task)
    /\ q.pending = 0

\* C5: pushes are processed in order of arrival: a step that places a value
\* in the ring is never taken by a task while a producer that arrived
\* earlier is still inside its push future (parked, or woken and not yet
\* polled).
C5_PushesInArrivalOrder ==
    [][\A t \in Tasks :
          (last'.task = t /\ PushDone')
             => \A u \in Tasks \ {t} :
                   (pc[u] = "push" /\ pc'[u] = "push")
                      => (pc[t] = "push" /\ Before(t, u))]_vars

\* C6: pops are processed in order of arrival: a step that takes a value out
\* of the ring is never taken by a task while a consumer that arrived
\* earlier is still inside its pop future.
C6_PopsInArrivalOrder ==
    [][\A t \in Tasks :
          (last'.task = t /\ PopDone')
             => \A u \in Tasks \ {t} :
                   (pc[u] = "pop" /\ pc'[u] = "pop")
                      => (pc[t] = "pop" /\ Before(t, u))]_vars

\* C7: no wake is lost on cancellation: when the future of a woken (detached,
\* not yet polled) producer or consumer is dropped while others of its kind
\* are parked, the wake goes to the front one of them.
C7_WakeForwardedOnCancel ==
    [][\A t \in Tasks :
          /\ (WokenPush(t) /\ last'.op = "cancel_push" /\ last'.task = t
                /\ q.push_waiters # <<>>)
                => \E u \in Tasks :
                      /\ u = Head(q.push_waiters)
                      /\ pc'[u] = "push"
                      /\ ~InList(q'.push_waiters, u)
          /\ (WokenPop(t) /\ last'.op = "cancel_pop" /\ last'.task = t
                /\ q.pop_waiters # <<>>)
                => \E u \in Tasks :
                      /\ u = Head(q.pop_waiters)
                      /\ pc'[u] = "pop"
                      /\ ~InList(q'.pop_waiters, u)]_vars

\* A step that takes a value out of the ring / places one in it.
PopStep == (\E t \in Tasks : PopStart(t) \/ PopResume(t)) /\ PopDone'
PushStep ==
    (\E t \in Tasks : TryPush(t) \/ PushStart(t) \/ PushResume(t)) /\ PushDone'

\* C8: no starvation: with woken tasks polled fairly, a producer inside a
\* push future leaves it (its push completes, or it is cancelled) provided
\* pops keep being performed, and a consumer inside a pop future leaves it
\* provided pushes keep being performed, whatever other tasks do.
C8_NoStarvation ==
    \A t \in Tasks :
        /\ ([]<><<PopStep>>_vars) => ((pc[t] = "push") ~> (pc[t] # "push"))
        /\ ([]<><<PushStep>>_vars) => ((pc[t] = "pop") ~> (pc[t] # "pop"))

\* C9: cancellation purity: dropping a suspended push or pop future takes
\* the task out of both wait lists and leaves head, tail, pending, the slots
\* and the histories of pushed and popped values as they were; and the value
\* of a cancelled push is never placed, never popped and in no slot.
C9_CancellationPurity ==
    /\ [][\A t \in Tasks :
             (last'.op \in {"cancel_push", "cancel_pop"} /\ last'.task = t)
                => /\ q'.head = q.head
                   /\ q'.tail = q.tail
                   /\ q'.pending = q.pending
                   /\ q'.storage = q.storage
                   /\ ~InList(q'.push_waiters, t)
                   /\ ~InList(q'.pop_waiters, t)
                   /\ pushed' = pushed
                   /\ popped' = popped]_vars
    /\ [](\A v \in cancelled :
             /\ v \notin Range(pushed)
             /\ v \notin Range(popped)
             /\ v \notin Range(q.storage))

C9_Witness ==
    /\ last.op = "cancel_push"
    /\ last.val \in cancelled
    /\ q.pending < capacity(q)
    /\ q.push_waiters # <<>>
    /\ popped # <<>>

\* C10: try_push on a full queue returns Err with the value it was given and
\* changes nothing (ring, slots, wait lists, tasks: nobody is woken);
\* try_push on a queue that is not full returns Ok.
C10_TryPushFull ==
    [][last'.op = "try_push"
          => IF q.pending = capacity(q)
             THEN /\ last'.res = "Err"
                  /\ last'.ret = last'.val
                  /\ q' = q
                  /\ pc' = pc
                  /\ val' = val
                  /\ pushed' = pushed
             ELSE last'.res = "Ok"]_vars

C10_Witness ==
    /\ last.op = "try_push"
    /\ last.res = "Err"
    /\ last.ret = last.val
    /\ q.pending = capacity(q)
    /\ q.push_waiters # <<>>

\* ------------------------------------------------- ring-buffer properties

NoWaiters(s) == s.push_waiters = <<>> /\ s.pop_waiters = <<>>

\* try_push of the values vs, one after the other: the queue afterwards and
\* whether every call returned Ok.
RECURSIVE PushAll(_, _)
PushAll(s, vs) ==
    IF vs = <<>>
    THEN [q |-> s, ok |-> TRUE]
    ELSE LET r == try_push(s, Head(vs))
             rest == PushAll(r.q, Tail(vs))
         IN  [q |-> rest.q, ok |-> r.res = "Ok" /\ rest.ok]

\* k pops of a queue that holds at least k values: the values returned, in
\* order, and the queue afterwards.
RECURSIVE PopAll(_, _)
PopAll(s, k) ==
    IF k = 0
    THEN [q |-> s, out |-> <<>>]
    ELSE LET r == pop_commit(s)
             rest == PopAll(r.q, k - 1)
         IN  [q |-> rest.q, out |-> <<r.slot>> \o rest.out]

\* C11: round-trip FIFO: from every reachable empty queue without waiters
\* (whatever head == tail is, so also across the end of the ring), pushing
\* v1..vk with k <= N and popping k times returns v1..vk in that order and
\* leaves the queue empty with head == tail.
C11_RoundTripFifo ==
    (q.pending = 0 /\ NoWaiters(q))
       => \A k \in 1..capacity(q) :
             LET vs == [i \in 1..k |-> 10 * i]
                 filled == PushAll(q, vs)
                 r == PopAll(filled.q, k)
             IN  /\ filled.ok
                 /\ filled.q.pending = k
                 /\ r.out = vs
                 /\ r.q.pending = 0
                 /\ r.q.head = r.q.tail
                 /\ r.q.storage = q.storage

C11_Witness ==
    /\ q.pending = 0
    /\ NoWaiters(q)
    /\ capacity(q) > 1
    /\ q.head = capacity(q) - 1
    /\ q.tail = q.head
    /\ PopDone

\* C16: pending stays within 0..N and head and tail within 0..N-1, so len()
\* never exceeds capacity() and the index assertions of try_push and pop
\* hold.
C16_IndicesInRange ==
    /\ capacity(q) >= 1
    /\ 0 <= q.pending /\ q.pending <= capacity(q)
    /\ 0 <= q.head /\ q.head < capacity(q)
    /\ 0 <= q.tail /\ q.tail < capacity(q)
    /\ len(q) <= capacity(q)

C16_Witness ==
    /\ PushDone
    /\ capacity(q) > 1
    /\ q.pending = capacity(q)
    /\ q.head = capacity(q) - 1

\* C17: head, tail and pending agree: pending == (head - tail) mod N while
\* 1 <= pending <= N-1, and head == tail when pending is 0 or N; with N == 1
\* head and tail are always 0.
C17_HeadTailPending ==
    /\ (1 <= q.pending /\ q.pending <= capacity(q) - 1)
          => q.pending = (q.head - q.tail) % capacity(q)
    /\ (q.pending = 0 \/ q.pending = capacity(q)) => q.head = q.tail
    /\ capacity(q) = 1 => (q.head = 0 /\ q.tail = 0)

C17_Witness ==
    /\ capacity(q) > 1
    /\ q.pending = 1
    /\ q.head < q.tail
    /\ PopDone

\* The slots that hold a value.
LiveSlots(s) == {i \in DOMAIN s.storage : s.storage[i] # Uninit}

\* C18: the slots that hold a value are exactly tail, tail+1, ...,
\* tail+pending-1 (mod N); a push writes a slot that holds none and a pop
\* reads a slot that holds one.
C18_LiveSlots ==
    /\ [](LiveSlots(q) =
             {(q.tail + k) % capacity(q) : k \in 0..(q.pending - 1)})
    /\ [][/\ PushDone' => q.head \notin LiveSlots(q)
          /\ PopDone' => q.tail \in LiveSlots(q)]_vars

C18_Witness ==
    /\ capacity(q) > 1
    /\ q.pending = capacity(q)
    /\ q.tail = capacity(q) - 1
    /\ PushDone

\* C19: a push that places its value wakes a consumer if and only if the
\* queue was empty before it, and then the front one of pop_waiters and no
\* other; the code's test (written slot index == tail) is the same as
\* "was empty" whenever a push can succeed, N == 1 included.
C19_PushWakesIffWasEmpty ==
    [][PushDone'
          => /\ (q.head = q.tail) <=> (q.pending = 0)
             /\ q'.push_waiters = q.push_waiters
             /\ IF q.pending = 0 /\ q.pop_waiters # <<>>
                THEN /\ q'.pop_waiters = Tail(q.pop_waiters)
                     /\ pc'[Head(q.pop_waiters)] = "pop"
                     /\ ~InList(q'.pop_waiters, Head(q.pop_waiters))
                ELSE q'.pop_waiters = q.pop_waiters]_vars

C19_Witness ==
    /\ PushDone
    /\ q.pending = 1
    /\ q.pop_waiters # <<>>
    /\ \E t \in Tasks : WokenPop(t)

\* C20: a completed pop wakes a producer if and only if the queue was full
\* before it, and then the front one of push_waiters and no other; the
\* code's test (pre-update tail == head) is the same as "was full" whenever
\* a pop can complete, N == 1 included.
C20_PopWakesIffWasFull ==
    [][PopDone'
          => /\ (q.tail = q.head) <=> (q.pending = capacity(q))
             /\ q'.pop_waiters = q.pop_waiters
             /\ IF q.pending = capacity(q) /\ q.push_waiters # <<>>
                THEN /\ q'.push_waiters = Tail(q.push_waiters)
                     /\ pc'[Head(q.push_waiters)] = "push"
                     /\ ~InList(q'.push_waiters, Head(q.push_waiters))
                ELSE q'.push_waiters = q.push_waiters]_vars

C20_Witness ==
    /\ PopDone
    /\ q.pending = capacity(q) - 1
    /\ q.push_waiters # <<>>
    /\ \E t \in Tasks : WokenPush(t)

\* ----------------------------------------------------- dropping a queue

\* The loop of drop with n iterations to go, at slot t: drop_in_place on the
\* slot, then the index advances modulo the length of the storage.
RECURSIVE drop_walk(_, _, _)
drop_walk(s, t, n) ==
    IF n = 0 THEN <<>>
    ELSE <<[slot |-> t, value |-> s.storage[t]]>>
         \o drop_walk(s, (t + 1) % capacity(s), n - 1)

\* A wrong destructor: it walks from head instead of tail.
drop_from_head(s) == drop_walk(s, s.head, s.pending)

\* Drop for Queue: the slots it destructs, in order, with what they held.
drop(s) == drop_walk(s, s.tail, s.pending)

\* The queue goes out of scope.  The futures borrow the queue, so no
\* operation is in flight.  The destructed slots are uninitialized again.
DropQueue ==
    /\ Live
    /\ \A t \in Tasks : pc[t] = "idle"
    /\ destructed' = drop(q)
    /\ q' = [q EXCEPT !.storage =
                [i \in DOMAIN q.storage |->
                    IF \E j \in DOMAIN drop(q) : drop(q)[j].slot = i
                    THEN Uninit ELSE q.storage[i]]]
    /\ life' = "dropped"
    /\ last' = [op |-> "drop", task |-> 0, val |-> 0, res |-> "none", ret |-> 0]
    /\ UNCHANGED <<pc, val, nextv, pushed, popped, cancelled, arrival, track,
                   INIT, cpu_vars>>

DropNext == Next \/ DropQueue

\* A queue on the stack: it is used, and then dropped.
DropSpec == Init /\ [][DropNext]_vars

\* C12: dropping a queue with k elements pending destructs exactly the k live
\* slots tail, tail+1, ..., tail+k-1 (mod N), in that order, once each, with
\* the values still queued (pushed and not popped); it touches no
\* uninitialized slot, and no live slot is left behind.
C12_DropDestructsLiveSlots ==
    [][(life = "live" /\ life' = "dropped") =>
        /\ Len(destructed') = q.pending
        /\ \A i \in 1..q.pending :
              /\ destructed'[i].slot = (q.tail + i - 1) % capacity(q)
              /\ destructed'[i].value = RingContents[i]
              /\ destructed'[i].value # Uninit
        /\ \A i, j \in DOMAIN destructed' :
              destructed'[i].slot = destructed'[j].slot => i = j
        /\ {destructed'[i].slot : i \in DOMAIN destructed'} = LiveSlots(q)
        /\ {destructed'[i].value : i \in DOMAIN destructed'}
              = Range(pushed) \ Range(popped)
        /\ LiveSlots(q') = {}
        /\ q'.head = q.head /\ q'.tail = q.tail /\ q'.pending = q.pending]_vars

\* A full queue of capacity above one is dropped, with its oldest element in
\* the last slot: the walk wraps around.
C12_Witness ==
    /\ life = "dropped"
    /\ Len(destructed) > 1
    /\ destructed[1].slot = capacity(q) - 1
    /\ destructed[2].slot = 0
    /\ popped # <<>>


\* ------------------------------------------- a statically allocated queue

\* Q and Q_STOR before the site has run: n slots of uninitialized memory and
\* a queue that nobody has written and nobody can refer to.
Unwritten(n) ==
    [storage      |-> [i \in 0..(n - 1) |-> Uninit],
     pending      |-> Uninit,
     head         |-> Uninit,
     tail         |-> Uninit,
     push_waiters |-> <<>>,
     pop_waiters  |-> <<>>]

\* AtomicBool::swap: the flag takes the new value and the old one is
\* returned, in one indivisible step.
swap_flag(flag, value) == [old |-> flag, new |-> value]

\* A wrong site: no one-shot guard, every execution writes the queue.
CreateStaticUnguarded ==
    /\ life \in {"unborn", "live"}
    /\ INIT' = swap_flag(INIT, TRUE).new
    /\ q' = new(capacity(q))
    /\ life' = "live"
    /\ last' = [op |-> "create_static", task |-> 0, val |-> 0,
                res |-> "Ok", ret |-> 0]
    /\ UNCHANGED <<pc, val, nextv, pushed, popped, cancelled, arrival, track,
                   destructed, cpu_vars>>

\* One execution of a create_static_queue! site: swap the flag to true and
\* assert that it was false; only then write Queue::new into Q and finish
\* its initialization.  A failed assertion is a panic: the program is dead.
CreateStatic ==
    /\ life \in {"unborn", "live"}
    /\ LET r == swap_flag(INIT, TRUE)
       IN  /\ INIT' = r.new
           /\ IF r.old = FALSE
              THEN /\ q' = new(capacity(q))
                   /\ life' = "live"
                   /\ last' = [op |-> "create_static", task |-> 0, val |-> 0,
                               res |-> "Ok", ret |-> 0]
              ELSE /\ q' = q
                   /\ life' = "panicked"
                   /\ last' = [op |-> "create_static", task |-> 0, val |-> 0,
                               res |-> "Panic", ret |-> 0]
    /\ UNCHANGED <<pc, val, nextv, pushed, popped, cancelled, arrival, track,
                   destructed, cpu_vars>>

\* The program starts with the static queue not yet created.
StaticInit ==
    /\ \E n \in 1..MaxCap : q = Unwritten(n)
    /\ pc = [t \in Tasks |-> "idle"]
    /\ val = [t \in Tasks |-> 0]
    /\ nextv = 0
    /\ pushed = <<>>
    /\ popped = <<>>
    /\ cancelled = {}
    /\ arrival = <<>>
    /\ last = [op |-> "init", task |-> 0, val |-> 0, res |-> "none", ret |-> 0]
    /\ track = TRUE
    /\ life = "unborn"
    /\ INIT = FALSE
    /\ destructed = <<>>
    /\ CpuInit

StaticNext == Next \/ CreateStatic

\* A program with one create_static_queue! site, which it may execute at any
\* point between two steps of its tasks, any number of times.
StaticSpec == StaticInit /\ [][StaticNext]_vars

\* A step that executes the construction site.
SiteExecuted ==
    \/ life' # life
    \/ last'.op = "create_static" /\ last.op # "create_static"

\* C13: a static construction site initializes its queue at most once.  The
\* first execution finds the flag false, sets it and creates an empty queue;
\* every later execution finds the flag true and fails fatally at the guard
\* before writing anything: the queue (contents, indices, wait lists) and the
\* tasks using it are as they were.  The flag never goes back to false.
C13_StaticInitOnce ==
    /\ [](life \in {"live", "panicked"} => INIT)
    /\ [][INIT => INIT']_vars
    /\ [][SiteExecuted =>
            /\ INIT'
            /\ IF ~INIT
               THEN /\ life = "unborn" /\ life' = "live"
                    /\ q' = new(capacity(q))
               ELSE /\ life = "live" /\ life' = "panicked"
                    /\ q' = q
                    /\ pc' = pc /\ val' = val
                    /\ pushed' = pushed /\ popped' = popped]_vars

\* The site was executed a second time while the queue held elements and a
\* task was suspended on it.
C13_Witness ==
    /\ life = "panicked"
    /\ last.res = "Panic"
    /\ q.pending > 0
    /\ q.push_waiters # <<>>


\* ------------------------------------------------------ atomic polyfill

\* The width of the cell in bits, scaled down from the 32 of AtomicU32.
Width == 2

\* How many interrupt handlers can be nested on top of the thread.
MaxNest == 1

Modulus == 2 ^ Width

\* The arguments the callers pass: one, and the all-ones word.
Args == {1, Modulus - 1}

Orderings == {"Relaxed", "Release", "Acquire", "AcqRel", "SeqCst"}

\* Ordering is a non-exhaustive enum: "Other" stands for any further value.
AnyOrdering == Orderings \cup {"Other"}

Ops == {"swap", "fetch_add", "fetch_or"}

\* A wrong table: the pairs of Acquire and Release are exchanged.
rmw_ordering_exchanged(o) ==
    CASE o = "AcqRel"  -> [panic |-> FALSE, lo |-> "Acquire", so |-> "Release"]
      [] o = "Relaxed" -> [panic |-> FALSE, lo |-> o, so |-> o]
      [] o = "SeqCst"  -> [panic |-> FALSE, lo |-> o, so |-> o]
      [] o = "Acquire" -> [panic |-> FALSE, lo |-> "Relaxed", so |-> "Release"]
      [] o = "Release" -> [panic |-> FALSE, lo |-> "Acquire", so |-> "Relaxed"]
      [] OTHER         -> [panic |-> TRUE, lo |-> "none", so |-> "none"]

\* A wrong table: the requested ordering is passed on to both operations.
rmw_ordering_unsplit(o) ==
    IF o \in Orderings
    THEN [panic |-> FALSE, lo |-> o, so |-> o]
    ELSE [panic |-> TRUE, lo |-> "none", so |-> "none"]

\* rmw_ordering: the ordering of the load and of the store that emulate a
\* read-modify-write of ordering o; any other value panics.
rmw_ordering(o) ==
    CASE o = "AcqRel"  -> [panic |-> FALSE, lo |-> "Acquire", so |-> "Release"]
      [] o = "Relaxed" -> [panic |-> FALSE, lo |-> o, so |-> o]
      [] o = "SeqCst"  -> [panic |-> FALSE, lo |-> o, so |-> o]
      [] o = "Acquire" -> [panic |-> FALSE, lo |-> "Acquire", so |-> "Relaxed"]
      [] o = "Release" -> [panic |-> FALSE, lo |-> "Relaxed", so |-> "Release"]
      [] OTHER         -> [panic |-> TRUE, lo |-> "none", so |-> "none"]

\* The orderings a plain load and a plain store accept; any other panics.
load_ok(lo) == lo \in {"Relaxed", "Acquire", "SeqCst"}
store_ok(so) == so \in {"Relaxed", "Release", "SeqCst"}

\* u32::wrapping_add at the width of the cell.
wrapping_add(a, b) == (a + b) % Modulus

\* The bitwise or of two words.
RECURSIVE bit_or(_, _)
bit_or(a, b) ==
    IF a = 0 THEN b
    ELSE IF b = 0 THEN a
    ELSE (IF a % 2 = 1 \/ b % 2 = 1 THEN 1 ELSE 0)
         + 2 * bit_or(a \div 2, b \div 2)

\* The native back-end: one indivisible read-modify-write instruction.
native_rmw(op, c, v) ==
    CASE op = "swap"      -> [old |-> c, new |-> v]
      [] op = "fetch_add" -> [old |-> c, new |-> wrapping_add(c, v)]
      [] op = "fetch_or"  -> [old |-> c, new |-> bit_or(c, v)]

\* The emulation: the value stored, from the value x that was loaded.
polyfill_store(op, x, v) ==
    CASE op = "swap"      -> v
      [] op = "fetch_add" -> wrapping_add(x, v)
      [] op = "fetch_or"  -> bit_or(x, v)

\* The context that is running, and the stack with that context replaced.
Top == frames[Len(frames)]
SetTop(f) == [frames EXCEPT ![Len(frames)] = f]

QueueIdle == UNCHANGED <<queue_vars, INIT, destructed>>

\* A context calls swap_polyfill, fetch_add_polyfill or fetch_or_polyfill:
\* the ordering is split first, and a panic there ends the program.
PolyCall(op, v, o) ==
    /\ Live
    /\ Top.pc = "idle"
    /\ LET r == rmw_ordering(o)
       IN  IF r.panic
           THEN /\ life' = "panicked"
                /\ frames' = SetTop([IdleFrame EXCEPT
                        !.pc = "panicked", !.ordering = o])
           ELSE /\ life' = life
                /\ frames' = SetTop([IdleFrame EXCEPT
                        !.pc = "enter", !.op = op, !.val = v,
                        !.ordering = o, !.lo = r.lo, !.so = r.so])
    /\ UNCHANGED <<cell, native, primask>>
    /\ QueueIdle

\* A wrong emulation: the critical section does not disable interrupts.
EnterUnmasked ==
    /\ Live
    /\ Top.pc = "enter"
    /\ frames' = SetTop([Top EXCEPT !.pc = "load", !.saved = primask])
    /\ UNCHANGED <<cell, native, primask, life>>
    /\ QueueIdle

\* interrupt::free begins: the interrupt state is saved and interrupts are
\* disabled.
Enter ==
    /\ Live
    /\ Top.pc = "enter"
    /\ frames' = SetTop([Top EXCEPT !.pc = "load", !.saved = primask])
    /\ primask' = TRUE
    /\ UNCHANGED <<cell, native, life>>
    /\ QueueIdle

\* let x = self.load(lo): a load of ordering Release or AcqRel panics, with
\* interrupts still disabled.
PolyLoad ==
    /\ Live
    /\ Top.pc = "load"
    /\ IF load_ok(Top.lo)
       THEN /\ frames' = SetTop([Top EXCEPT !.pc = "store", !.x = cell])
            /\ life' = life
       ELSE /\ frames' = SetTop([Top EXCEPT !.pc = "failed"])
            /\ life' = "panicked"
    /\ UNCHANGED <<cell, native, primask>>
    /\ QueueIdle

\* self.store(..., so).  The native back-end, run on the same calls, does its
\* whole read-modify-write here.
PolyStore ==
    /\ Live
    /\ Top.pc = "store"
    /\ IF store_ok(Top.so)
       THEN /\ cell' = polyfill_store(Top.op, Top.x, Top.val)
            /\ native' = native_rmw(Top.op, native, Top.val).new
            /\ frames' = SetTop([Top EXCEPT !.pc = "exit"])
            /\ life' = life
       ELSE /\ frames' = SetTop([Top EXCEPT !.pc = "failed"])
            /\ life' = "panicked"
            /\ UNCHANGED <<cell, native>>
    /\ UNCHANGED primask
    /\ QueueIdle

\* interrupt::free ends: interrupts are enabled again if they were enabled
\* when it began, and the call returns x.
Exit ==
    /\ Live
    /\ Top.pc = "exit"
    /\ primask' = IF Top.saved THEN primask ELSE FALSE
    /\ frames' = SetTop(IdleFrame)
    /\ UNCHANGED <<cell, native, life>>
    /\ QueueIdle

\* An interrupt preempts the running context, wherever it is, when
\* interrupts are enabled.
Interrupt ==
    /\ Live
    /\ ~primask
    /\ Len(frames) <= MaxNest
    /\ frames' = Append(frames, IdleFrame)
    /\ UNCHANGED <<cell, native, primask, life>>
    /\ QueueIdle

\* An interrupt handler returns to the context it preempted.
Return ==
    /\ Live
    /\ Len(frames) > 1
    /\ Top.pc = "idle"
    /\ frames' = SubSeq(frames, 1, Len(frames) - 1)
    /\ UNCHANGED <<cell, native, primask, life>>
    /\ QueueIdle

\* The running context disables or enables interrupts itself, outside any
\* polyfill call: its own critical section around a call.
SetMask(m) ==
    /\ Live
    /\ Top.pc = "idle"
    /\ primask # m
    /\ primask' = m
    /\ frames' = SetTop(IdleFrame)
    /\ UNCHANGED <<cell, native, life>>
    /\ QueueIdle

AtomicInit ==
    /\ q = new(1)
    /\ pc = [t \in Tasks |-> "idle"]
    /\ val = [t \in Tasks |-> 0]
    /\ nextv = 0
    /\ pushed = <<>>
    /\ popped = <<>>
    /\ cancelled = {}
    /\ arrival = <<>>
    /\ last = [op |-> "init", task |-> 0, val |-> 0, res |-> "none", ret |-> 0]
    /\ track = FALSE
    /\ life = "live"
    /\ INIT = FALSE
    /\ destructed = <<>>
    /\ CpuInit

AtomicNext ==
    \/ \E op \in Ops, v \in Args, o \in AnyOrdering : PolyCall(op, v, o)
    \/ Enter
    \/ PolyLoad
    \/ PolyStore
    \/ Exit
    \/ Interrupt
    \/ Return
    \/ \E m \in BOOLEAN : SetMask(m)

\* The thread and the interrupt handlers of a single-core processor without
\* read-modify-write instructions, all using the polyfill on one cell.
AtomicSpec == AtomicInit /\ [][AtomicNext]_vars


\* A context between the load and the end of its critical section.
InSection(f) == f.pc \in {"load", "store", "exit"}

\* The running context performs the store of its call.
StoreStep ==
    /\ Len(frames') = Len(frames)
    /\ Top.pc = "store"
    /\ Top'.pc = "exit"

\* The running context leaves its critical section.
ExitStep ==
    /\ Len(frames') = Len(frames)
    /\ Top.pc = "exit"
    /\ Top'.pc = "idle"

\* C14: the critical-section emulation of swap, fetch_add and fetch_or is
\* indivisible with respect to interrupts and equivalent to the native
\* read-modify-write.  No context is ever preempted between its load and the
\* end of its section, and interrupts are disabled there; every call returns
\* the value the cell held immediately before its own store and stores
\* new / old+delta wrapping at the cell width / old|mask, so the cell always
\* equals the cell of the native back-end and no update is lost; leaving the
\* section restores the interrupt state found on entry.
C14_EmulationEqualsNative ==
    /\ [](cell = native)
    /\ [](cell \in 0..(Modulus - 1))
    /\ [](\A i \in 1..(Len(frames) - 1) : ~InSection(frames[i]))
    /\ [](InSection(Top) => primask)
    /\ [][StoreStep =>
            /\ Top.x = cell
            /\ Top.x = native_rmw(Top.op, native, Top.val).old
            /\ cell' = native_rmw(Top.op, cell, Top.val).new
            /\ Top.op = "swap" => cell' = Top.val
            /\ Top.op = "fetch_add" => cell' = (cell + Top.val) % Modulus
            /\ Top.op = "fetch_or" =>
                  /\ cell' >= cell /\ cell' >= Top.val
                  /\ (Top.val = Modulus - 1 => cell' = Modulus - 1)]_vars
    /\ [][ExitStep => primask' = Top.saved]_vars

\* An interrupt handler preempted the thread just before the thread's
\* critical section, and its own fetch_add has wrapped the cell around.
C14_Witness ==
    /\ Len(frames) > 1
    /\ frames[1].pc = "enter"
    /\ Top.pc = "exit"
    /\ Top.op = "fetch_add"
    /\ cell < Top.x
    /\ ~Top.saved

\* The table of the ordering decomposition.
OrderingTable ==
    [o \in Orderings |->
        CASE o = "Relaxed" -> <<"Relaxed", "Relaxed">>
          [] o = "Acquire" -> <<"Acquire", "Relaxed">>
          [] o = "Release" -> <<"Relaxed", "Release">>
          [] o = "AcqRel"  -> <<"Acquire", "Release">>
          [] o = "SeqCst"  -> <<"SeqCst", "SeqCst">>]

\* C15: on the emulation path the requested ordering is split into (load
\* ordering, store ordering) exactly as the table says: Relaxed -> (Relaxed,
\* Relaxed), Acquire -> (Acquire, Relaxed), Release -> (Relaxed, Release),
\* AcqRel -> (Acquire, Release), SeqCst -> (SeqCst, SeqCst); a call with any
\* other ordering value is fatal, and it touches neither the cell nor the
\* interrupt state.
C15_OrderingTable ==
    /\ [](\A i \in DOMAIN frames :
            LET f == frames[i]
            IN  f.pc # "idle" =>
                  /\ f.ordering \in AnyOrdering
                  /\ f.ordering \in Orderings =>
                        /\ f.pc # "panicked"
                        /\ <<f.lo, f.so>> = OrderingTable[f.ordering]
                  /\ f.ordering \notin Orderings =>
                        /\ f.pc = "panicked"
                        /\ life = "panicked")
    /\ [][life' = "panicked" =>
            cell' = cell /\ native' = native /\ primask' = primask]_vars

\* An interrupt handler called the polyfill with an ordering outside the
\* table while the thread was about to emulate an Acquire operation.
C15_Witness ==
    /\ Len(frames) > 1
    /\ frames[1].pc = "enter"
    /\ frames[1].ordering = "Acquire"
    /\ frames[1].lo = "Acquire"
    /\ frames[1].so = "Relaxed"
    /\ Top.ordering = "Other"
    /\ life = "panicked"


\* ------------------------------------------------- barging and waiting

\* t stands ahead of u in a wait list.
Ahead(list, t, u) ==
    \E i, j \in 1..Len(list) : i < j /\ list[i] = t /\ list[j] = u

\* A woken waiter was polled again and its retry failed.
RetryFailed ==
    /\ last'.op \in {"push_resume", "pop_resume"}
    /\ last'.res = "Pending"
    /\ last' # last

\* C21: a woken waiter whose retry fails because another task barged in
\* before it was polled re-suspends at the head of its wait list: it stands
\* ahead of every waiter of that list that arrived after its own original
\* enrollment, so the next wake_one on that list wakes it before any of them.
C21_WokenWaiterKeepsPosition ==
    [][RetryFailed =>
        LET t == last'.task
            list == IF last'.op = "push_resume"
                    THEN q'.push_waiters ELSE q'.pop_waiters
        IN  /\ InList(list, t)
            /\ \A u \in Tasks \ {t} :
                  (InList(list, u) /\ Ahead(arrival', t, u))
                     => Ahead(list, t, u)]_vars


\* C22: push_waiters and pop_waiters are never both non-empty; in particular
\* no consumer is parked in pop_waiters while the queue is full and producers
\* are parked in push_waiters.
C22_ListsNeverBothNonEmpty ==
    ~(q.push_waiters # <<>> /\ q.pop_waiters # <<>>)


\* ------------------------------------------- legality of the split pair

\* C23: for each of the five accepted orderings the pair produced by
\* rmw_ordering is legal for the plain operations it is passed to: the load
\* ordering is one of Relaxed, Acquire, SeqCst and the store ordering is one
\* of Relaxed, Release, SeqCst, so no emulated swap, fetch_add or fetch_or
\* fails inside its critical section.
C23_SplitOrderingsLegal ==
    \A i \in DOMAIN frames :
        LET f == frames[i]
        IN  /\ f.pc # "failed"
            /\ f.pc \in {"enter", "load", "store", "exit"} =>
                  /\ f.ordering \in Orderings
                  /\ f.lo \in {"Relaxed", "Acquire", "SeqCst"}
                  /\ f.lo \notin {"Release", "AcqRel"}
                  /\ f.so \in {"Relaxed", "Release", "SeqCst"}
                  /\ f.so \notin {"Acquire", "AcqRel"}

\* An interrupt handler's AcqRel swap has done its load and its store, while
\* the thread is about to begin a Release operation.
C23_Witness ==
    /\ Len(frames) > 1
    /\ frames[1].pc = "enter"
    /\ frames[1].ordering = "Release"
    /\ Top.pc = "exit"
    /\ Top.ordering = "AcqRel"
    /\ Top.op = "swap"

====
